---- MODULE Spec2Model ----
(***************************************************************************)
(* Model of the me5413_world path tracker (path_tracker_node.cpp) and of   *)
(* the local-path window of the path publisher (path_publisher_node.hpp).  *)
(*                                                                         *)
(* Doubles are modelled as fixed-point integers with three decimals        *)
(* (1.0 is 1000); angles are milliradians.  Only finite values are         *)
(* represented: NaN and infinities are outside the model.                  *)
(***************************************************************************)
EXTENDS Integers, Sequences, FiniteSets, TLC

\* ------------------------------------------------------------------ numbers

\* one unit of a double: 1.0
Scale == 1000

\* M_PI in milliradians (even, so that M_PI / 2 is exact)
PI == 3142

HalfPI == PI \div 2

\* const double MAX_STEERING_ANGLE = 0.5
MAX_STEERING_ANGLE == 500

\* the floor of the lookahead distance, the literal 1.0 of std::max(1.0, ...)
LookaheadFloor == 1000

\* path->poses[11]
GoalIndex == 11

Abs(a) == IF a < 0 THEN -a ELSE a

\* std::min(a, b) is (b < a) ? b : a
StdMin(a, b) == IF b < a THEN b ELSE a

\* std::max(a, b) is (a < b) ? b : a
StdMax(a, b) == IF a < b THEN b ELSE a

\* product of two fixed-point numbers
Mul(a, b) == (a * b) \div Scale

RECURSIVE SqrtSearch(_, _, _)
SqrtSearch(n, lo, hi) ==
  IF lo >= hi THEN lo
  ELSE LET mid == (lo + hi + 1) \div 2
       IN  IF mid * mid <= n THEN SqrtSearch(n, mid, hi)
           ELSE SqrtSearch(n, lo, mid - 1)

\* std::sqrt(dx * dx + dy * dy) for fixed-point dx, dy: the result is fixed-point
Hypot(dx, dy) == SqrtSearch(dx * dx + dy * dy, 0, Abs(dx) + Abs(dy))

\* atan(t / 1000) in milliradians for 0 <= t <= 1000
\* (t * (pi/4 + 0.273 * (1 - t)), within 4 mrad of the true value)
AtanUnit(t) == (t * (785000 + 273 * (Scale - t))) \div 1000000

\* std::atan(x) for a fixed-point x
StdAtan(x) ==
  LET a == Abs(x)
      r == IF a <= Scale THEN AtanUnit(a)
           ELSE HalfPI - AtanUnit((Scale * Scale) \div a)
  IN  IF x < 0 THEN -r ELSE r

\* std::atan2(y, x), in [-PI, PI]
StdAtan2(y, x) ==
  LET ax == Abs(x)
      ay == Abs(y)
      base == IF ax = 0 /\ ay = 0 THEN 0
              ELSE IF ay <= ax THEN AtanUnit((ay * Scale) \div ax)
              ELSE HalfPI - AtanUnit((ax * Scale) \div ay)
  IN  IF x >= 0 /\ y >= 0 THEN base
      ELSE IF x < 0 /\ y >= 0 THEN PI - base
      ELSE IF x < 0 /\ y < 0 THEN base - PI
      ELSE -base

\* a double converted to bool: nonzero is true (1), zero is false (0)
CppBool(d) == IF d = 0 THEN 0 ELSE 1

\* ------------------------------------------------------------------- state

VARIABLES
  MAX_THROTTLE,                \* double MAX_THROTTLE
  THROTTLE_GAIN,               \* double THROTTLE_GAIN
  ROBOT_LENGTH,                \* double ROBOT_LENGTH
  DEFAULT_LOOKAHEAD_DISTANCE,  \* bool DEFAULT_LOOKAHEAD_DISTANCE (0 or 1)
  config,                      \* the configuration last handed to dynamicParamCallback
  pc,                          \* position of the spinner thread: "idle", or the line of
                               \* dynamicParamCallback it is about to execute
  odom_world_robot_,           \* PathTrackerNode::odom_world_robot_
  pose_world_goal_,            \* PathTrackerNode::pose_world_goal_
  world_frame_,                \* PathTrackerNode::world_frame_
  robot_frame_,                \* PathTrackerNode::robot_frame_
  cmd_vel,                     \* the last message published on cmd_vel
  published,                   \* number of messages published on cmd_vel
  path_updates,                \* number of local-path messages handed to localPathCallback
  crashed,                     \* the tracker process has faulted
  locals,                      \* what the last control computation read and computed
  global_path_msg_,            \* PathPublisherNode::global_path_msg_
  local_path_msg_,             \* PathPublisherNode::local_path_msg_
  local_path_topic             \* /me5413_world/planning/local_path, subscriber queue of 1

params == <<MAX_THROTTLE, THROTTLE_GAIN, ROBOT_LENGTH, DEFAULT_LOOKAHEAD_DISTANCE>>

tracker_vars == <<MAX_THROTTLE, THROTTLE_GAIN, ROBOT_LENGTH, DEFAULT_LOOKAHEAD_DISTANCE,
                  config, pc, odom_world_robot_, pose_world_goal_, world_frame_,
                  robot_frame_, cmd_vel, published, path_updates, crashed, locals>>

publisher_vars == <<global_path_msg_, local_path_msg_>>

vars == <<tracker_vars, publisher_vars, local_path_topic>>

\* ------------------------------------------------------------------ values

Pose(x, y, yaw) == [x |-> x, y |-> y, yaw |-> yaw]

Odometry(frame, child, x, y, yaw, vx) ==
  [frame_id |-> frame, child_frame_id |-> child, x |-> x, y |-> y, yaw |-> yaw, vx |-> vx]

Config(mt, tg, rl, ld) ==
  [max_throttle |-> mt, throttle_gain |-> tg, robot_length |-> rl, lookahead_distance |-> ld]

\* a default-constructed nav_msgs::Odometry: empty frame ids, zero pose and twist
DefaultOdometry == Odometry("", "", 0, 0, 0, 0)

\* a default-constructed geometry_msgs::Pose
DefaultPose == Pose(0, 0, 0)

\* a default-constructed geometry_msgs::Twist
DefaultTwist == [linear_x |-> 0, angular_z |-> 0]

\* ------------------------------------------------------- the control law

\* PathTrackerNode::computeDistance
computeDistance(p1, p2) ==
  LET dx == p2.x - p1.x
      dy == p2.y - p1.y
  IN  Hypot(dx, dy)

\* computeThrottle with std::max written for std::min
computeThrottleMax(distance_to_goal) ==
  StdMax(MAX_THROTTLE, Mul(distance_to_goal, THROTTLE_GAIN))

\* PathTrackerNode::computeThrottle
computeThrottle(distance_to_goal) ==
  StdMin(MAX_THROTTLE, Mul(distance_to_goal, THROTTLE_GAIN))

\* PathTrackerNode::computeLookaheadDistance
computeLookaheadDistance(odom_robot) ==
  LET velocity == odom_robot.vx
  IN  StdMax(LookaheadFloor, velocity * DEFAULT_LOOKAHEAD_DISTANCE)

\* the fold written as a full-circle wrap: 2 * pi for pi
FoldAlphaFullCircle(alpha) ==
  IF alpha > HalfPI THEN alpha - 2 * PI
  ELSE IF alpha < -HalfPI THEN alpha + 2 * PI
  ELSE alpha

\* "Ensure alpha is within the range [-pi/2, pi/2]": the two-branch fold
FoldAlpha(alpha) ==
  IF alpha > HalfPI THEN alpha - PI
  ELSE IF alpha < -HalfPI THEN alpha + PI
  ELSE alpha

\* the limit without its lower branch
ClampSteeringUpperOnly(steering) ==
  IF steering > MAX_STEERING_ANGLE THEN MAX_STEERING_ANGLE ELSE steering

\* "Limit the steering angle to a maximum value"
ClampSteering(steering) ==
  IF steering > MAX_STEERING_ANGLE THEN MAX_STEERING_ANGLE
  ELSE IF steering < -MAX_STEERING_ANGLE THEN -MAX_STEERING_ANGLE
  ELSE steering

\* PathTrackerNode::computeSteering: its local variables at the return statement
SteeringLocals(odom_robot, pose_goal) ==
  LET yaw_robot == odom_robot.yaw
      yaw_goal == pose_goal.yaw
      dx == pose_goal.x - odom_robot.x
      dy == pose_goal.y - odom_robot.y
      cross_track_error == Hypot(dx, dy)
      alpha_raw == StdAtan2(dy, dx) - yaw_robot
      alpha == FoldAlpha(alpha_raw)
      lookahead_distance == computeLookaheadDistance(odom_robot)
      steering_raw ==
        StdAtan((2 * ROBOT_LENGTH * cross_track_error) \div lookahead_distance) + alpha
  IN  [yaw_robot |-> yaw_robot,
       heading_error |-> yaw_goal - yaw_robot,
       cross_track_error |-> cross_track_error,
       alpha_raw |-> alpha_raw,
       alpha |-> alpha,
       lookahead_distance |-> lookahead_distance,
       steering_raw |-> steering_raw,
       steering |-> ClampSteering(steering_raw)]

\* PathTrackerNode::computeSteering
computeSteering(odom_robot, pose_goal) == SteeringLocals(odom_robot, pose_goal).steering

\* computeControlOutputs with a throttle ramp that reads the command before
computeControlOutputsRamped(odom_robot, pose_goal) ==
  LET distance_to_goal == computeDistance(odom_robot, pose_goal)
      throttle == StdMin(computeThrottle(distance_to_goal), cmd_vel.linear_x + 100)
      steering == computeSteering(odom_robot, pose_goal)
  IN  [linear_x |-> throttle, angular_z |-> steering]

\* PathTrackerNode::computeControlOutputs
computeControlOutputs(odom_robot, pose_goal) ==
  LET distance_to_goal == computeDistance(odom_robot, pose_goal)
      throttle == computeThrottle(distance_to_goal)
      steering == computeSteering(odom_robot, pose_goal)
  IN  [linear_x |-> throttle, angular_z |-> steering]

\* --------------------------------------------------- the tracker's callbacks

\* callbacks on several threads, as under a multi-threaded spinner
SpinnerAsync == TRUE

\* ros::spin() in main: one thread runs the callbacks, each to completion, so a
\* callback starts only when no other is running
SpinnerIdle == pc = "idle"

\* what the assignments of dynamicParamCallback store for a configuration
ParamsOf(cfg) ==
  <<cfg.max_throttle, cfg.throttle_gain, cfg.robot_length, CppBool(cfg.lookahead_distance)>>

\* dynamicParamCallback, one assignment per step
dynamicParamCallback(cfg) ==
  /\ ~crashed
  /\ \/ /\ SpinnerIdle
        /\ config' = cfg
        /\ MAX_THROTTLE' = cfg.max_throttle
        /\ pc' = "L25"
        /\ UNCHANGED <<THROTTLE_GAIN, ROBOT_LENGTH, DEFAULT_LOOKAHEAD_DISTANCE>>
     \/ /\ pc = "L25"
        /\ cfg = config
        /\ THROTTLE_GAIN' = config.throttle_gain
        /\ pc' = "L26"
        /\ UNCHANGED <<config, MAX_THROTTLE, ROBOT_LENGTH, DEFAULT_LOOKAHEAD_DISTANCE>>
     \/ /\ pc = "L26"
        /\ cfg = config
        /\ ROBOT_LENGTH' = config.robot_length
        /\ pc' = "L27"
        /\ UNCHANGED <<config, MAX_THROTTLE, THROTTLE_GAIN, DEFAULT_LOOKAHEAD_DISTANCE>>
     \/ /\ pc = "L27"
        /\ cfg = config
        /\ DEFAULT_LOOKAHEAD_DISTANCE' = CppBool(config.lookahead_distance)
        /\ pc' = "idle"
        /\ UNCHANGED <<config, MAX_THROTTLE, THROTTLE_GAIN, ROBOT_LENGTH>>
  /\ UNCHANGED <<odom_world_robot_, pose_world_goal_, world_frame_, robot_frame_,
                 cmd_vel, published, path_updates, crashed, locals,
                 publisher_vars, local_path_topic>>

\* PathTrackerNode::robotOdomCallback
robotOdomCallback(odom) ==
  /\ SpinnerIdle
  /\ ~crashed
  /\ world_frame_' = odom.frame_id
  /\ robot_frame_' = odom.child_frame_id
  /\ odom_world_robot_' = odom
  /\ UNCHANGED <<MAX_THROTTLE, THROTTLE_GAIN, ROBOT_LENGTH, DEFAULT_LOOKAHEAD_DISTANCE,
                 config, pc, pose_world_goal_, cmd_vel, published, path_updates,
                 crashed, locals, publisher_vars, local_path_topic>>

\* what a control computation read and computed; `before` holds the command of
\* the computation before it when that one read the same odometry, goal and
\* parameters
ControlLocals(odom_robot, pose_goal) ==
  [odom_robot |-> odom_robot,
   pose_goal |-> pose_goal,
   params |-> params,
   config |-> config,
   distance_to_goal |-> computeDistance(odom_robot, pose_goal),
   s |-> SteeringLocals(odom_robot, pose_goal),
   before |-> IF /\ published > 0
                 /\ locals.odom_robot = odom_robot
                 /\ locals.pose_goal = pose_goal
                 /\ locals.params = params
              THEN <<cmd_vel>>
              ELSE <<>>]

NoLocals ==
  [odom_robot |-> DefaultOdometry, pose_goal |-> DefaultPose, params |-> <<0, 0, 0, 0>>,
   config |-> Config(0, 0, 0, 0), distance_to_goal |-> 0,
   s |-> [yaw_robot |-> 0, heading_error |-> 0, cross_track_error |-> 0, alpha_raw |-> 0,
          alpha |-> 0, lookahead_distance |-> 0, steering_raw |-> 0, steering |-> 0],
   before |-> <<>>]

\* lines 47-48 of localPathCallback once poses[11] has been read as `goal`
TrackGoal(goal) ==
  /\ pose_world_goal_' = goal
  /\ cmd_vel' = computeControlOutputs(odom_world_robot_, goal)
  /\ published' = published + 1
  /\ locals' = ControlLocals(odom_world_robot_, goal)
  /\ UNCHANGED crashed

\* the read of poses[11] beyond the end of the vector faults
Fault ==
  /\ crashed' = TRUE
  /\ UNCHANGED <<pose_world_goal_, cmd_vel, published, locals>>

\* poses that a read beyond the end of the vector may yield
GarbagePoses == {Pose(-5000, 0, 0), Pose(400, -1000, 1000)}

\* PathTrackerNode::localPathCallback on the message at the head of the queue.
\* poses[11] of a path with fewer than 12 poses is a read beyond the vector:
\* it yields some pose, or faults.
localPathCallback ==
  /\ SpinnerIdle
  /\ ~crashed
  /\ local_path_topic # <<>>
  /\ LET path == Head(local_path_topic)
     IN  \/ /\ Len(path) > GoalIndex
            /\ TrackGoal(path[GoalIndex + 1])
         \/ /\ Len(path) <= GoalIndex
            /\ \E garbage \in GarbagePoses : TrackGoal(garbage)
         \/ /\ Len(path) <= GoalIndex
            /\ Fault
  /\ local_path_topic' = Tail(local_path_topic)
  /\ path_updates' = path_updates + 1
  /\ UNCHANGED <<MAX_THROTTLE, THROTTLE_GAIN, ROBOT_LENGTH, DEFAULT_LOOKAHEAD_DISTANCE,
                 config, pc, odom_world_robot_, world_frame_, robot_frame_,
                 publisher_vars>>

\* ------------------------------------------------------ the path publisher

\* waypoints kept before and after the next waypoint
countBefore == 5

countAfter == 15

\* waypoint i (from 0) of the global path
Waypoint(i) == Pose(1000 * (i - GoalIndex), 500 * ((i % 3) - 1), 0)

\* a global path of n waypoints
GlobalPath(n) == [i \in 1..n |-> Waypoint(i - 1)]

\* first and last global index of the window around id_next
WindowStart(id_next, n_wp_prev) == IF id_next - n_wp_prev < 0 THEN 0 ELSE id_next - n_wp_prev

\* the window's end taken as exclusive
WindowEndExclusive(id_next, n_wp_post, n) ==
  (IF id_next + n_wp_post > n - 1 THEN n - 1 ELSE id_next + n_wp_post) - 1

WindowEnd(id_next, n_wp_post, n) ==
  IF id_next + n_wp_post > n - 1 THEN n - 1 ELSE id_next + n_wp_post

\* PathPublisherNode::publishLocalPath with nextWaypoint's result id_next
publishLocalPath(id_next, n_wp_prev, n_wp_post) ==
  LET n == Len(global_path_msg_)
      id_start == WindowStart(id_next, n_wp_prev)
      id_end == WindowEnd(id_next, n_wp_post, n)
  IN  /\ id_next \in 0..(n - 1)
      /\ local_path_msg_' =
           [id_next |-> id_next, id_start |-> id_start, id_end |-> id_end,
            poses |-> [i \in 1..(id_end - id_start + 1) |-> global_path_msg_[id_start + i]]]
      /\ local_path_topic' = <<local_path_msg_'.poses>>
      /\ UNCHANGED <<tracker_vars, global_path_msg_>>

NoLocalPath == [id_next |-> 0, id_start |-> 0, id_end |-> 0, poses |-> <<>>]

\* ----------------------------------------------------------- the system

\* longest global path, and the length of the track the tracker runs on
MaxN == 23

TrackLen == 14

\* commands the tracker publishes in a run
MaxCmds == 2

ConfigA == Config(500, 250, 200, 0)

ConfigB == Config(1000, 2000, 500, 2000)

Configs == {ConfigA, ConfigB}

\* the configuration the constructor's setCallback hands over
DefaultConfig == ConfigA

Odoms ==
  {Odometry("map", "robot", 0, 0, 1000, 5000),
   Odometry("world", "base_link", 1000, -1500, -3000, -2000)}

\* the tracker after its constructor, which runs dynamicParamCallback once
InitTracker(cfg, odom) ==
  /\ config = cfg
  /\ MAX_THROTTLE = cfg.max_throttle
  /\ THROTTLE_GAIN = cfg.throttle_gain
  /\ ROBOT_LENGTH = cfg.robot_length
  /\ DEFAULT_LOOKAHEAD_DISTANCE = CppBool(cfg.lookahead_distance)
  /\ pc = "idle"
  /\ odom_world_robot_ = odom
  /\ pose_world_goal_ = DefaultPose
  /\ cmd_vel = DefaultTwist
  /\ published = 0
  /\ path_updates = 0
  /\ crashed = FALSE
  /\ locals = NoLocals

Init ==
  /\ InitTracker(DefaultConfig, DefaultOdometry)
  /\ robot_frame_ = "base_link"
  /\ world_frame_ = "world"
  /\ global_path_msg_ = GlobalPath(TrackLen)
  /\ local_path_msg_ = NoLocalPath
  /\ local_path_topic = <<>>

\* the publisher's timer: a local path around any next waypoint of the global path
timerCallback ==
  \E id_next \in 0..(MaxN - 1) : publishLocalPath(id_next, countBefore, countAfter)

Next ==
  \/ \E cfg \in Configs : dynamicParamCallback(cfg)
  \/ \E odom \in Odoms : robotOdomCallback(odom)
  \/ published < MaxCmds /\ localPathCallback
  \/ timerCallback

Spec == Init /\ [][Next]_vars

\* ---------------------------------------- the window of the local path alone

InitWindow ==
  /\ InitTracker(DefaultConfig, DefaultOdometry)
  /\ robot_frame_ = "base_link"
  /\ world_frame_ = "world"
  /\ \E n \in 1..MaxN : global_path_msg_ = GlobalPath(n)
  /\ local_path_msg_ = NoLocalPath
  /\ local_path_topic = <<>>

NextWindow == timerCallback

SpecWindow == InitWindow /\ [][NextWindow]_vars

\* --------------------------------------------- one control computation alone

CtlConfigs ==
  {Config(mt, tg, rl, ld) : mt \in {500, 1000}, tg \in {250, 2000}, rl \in {200, 500},
                            ld \in {0, 500, 2000}}

CtlOdoms ==
  {Odometry("world", "base_link", 0, 0, yaw, vx) :
     yaw \in {-PI, -3000, -HalfPI, -1000, 0, 1000, HalfPI, 3000, PI},
     vx \in {-2000, 0, 500, 3000}}

CtlGoals ==
  {Pose(10000, 0, 0), Pose(-5000, 0, 0), Pose(0, 0, 0), Pose(0, 500, 0), Pose(1000, -500, 0),
   Pose(-3000, -1, 0), Pose(-1000, 1000, 0), Pose(0, -4000, 0), Pose(300, 100, 0)}

\* a local path whose pose of index 11 is goal
PathTo(goal) == [i \in 1..(GoalIndex + 1) |-> IF i = GoalIndex + 1 THEN goal ELSE Waypoint(i - 1)]

InitControl ==
  /\ \E cfg \in CtlConfigs, odom \in CtlOdoms : InitTracker(cfg, odom)
  /\ robot_frame_ = "base_link"
  /\ world_frame_ = "world"
  /\ global_path_msg_ = GlobalPath(TrackLen)
  /\ local_path_msg_ = NoLocalPath
  /\ \E goal \in CtlGoals : local_path_topic = <<PathTo(goal)>>

NextControl == localPathCallback

SpecControl == InitControl /\ [][NextControl]_vars

\* ------------------------------------------------------------------ claims

\* C1: every command published by localPathCallback has its steering in
\* [-0.5, 0.5]: exactly 0.5 when the unclamped value is above 0.5, exactly -0.5
\* when it is below -0.5, and the unclamped value otherwise.
C1_SteeringClamped ==
  published > 0 =>
    LET raw == locals.s.steering_raw
        steering == cmd_vel.angular_z
    IN  /\ -500 <= steering /\ steering <= 500
        /\ raw > 500 => steering = 500
        /\ raw < -500 => steering = -500
        /\ (-500 <= raw /\ raw <= 500) => steering = raw

\* a command whose unclamped steering was below -0.5 has been published
C1_Witness ==
  /\ published > 0
  /\ path_updates > 1
  /\ locals.s.steering_raw < -500
  /\ cmd_vel.angular_z = -500

\* C2: with maxThrottle > 0, throttleGain > 0 and a distance >= 0 the throttle is
\* min(maxThrottle, distance * throttleGain), lies in [0, maxThrottle], and is
\* maxThrottle whenever distance * throttleGain >= maxThrottle.
C2_Throttle ==
  published > 0 =>
    LET mt == locals.params[1]
        tg == locals.params[2]
        d == locals.distance_to_goal
        throttle == cmd_vel.linear_x
    IN  (mt > 0 /\ tg > 0 /\ d >= 0) =>
          /\ throttle = IF (d * tg) \div Scale < mt THEN (d * tg) \div Scale ELSE mt
          /\ 0 <= throttle /\ throttle <= mt
          /\ (d * tg) \div Scale >= mt => throttle = mt

\* a computation whose throttle saturated at maxThrottle
C2_Witness ==
  /\ published > 0
  /\ locals.distance_to_goal > 0
  /\ (locals.distance_to_goal * locals.params[2]) \div Scale > locals.params[1]
  /\ cmd_vel.linear_x = locals.params[1]

\* C3: a control computation reads the four parameters as the latest
\* configuration set them, all four of them: never some from the latest
\* configuration and others from the one before.
C3_NoMixedParams ==
  published > 0 =>
    /\ locals.params[1] = locals.config.max_throttle
    /\ locals.params[2] = locals.config.throttle_gain
    /\ locals.params[3] = locals.config.robot_length
    /\ locals.params[4] = (IF locals.config.lookahead_distance = 0 THEN 0 ELSE 1)

\* a command computed after a parameter update replaced the constructor's
\* configuration
C3_Witness ==
  /\ published > 0
  /\ locals.config = ConfigB
  /\ locals.config # DefaultConfig
  /\ locals.params = <<1000, 2000, 500, 1>>

\* C4: for a vehicle yaw in [-pi, pi] and any goal, alpha after the fold lies in
\* [-pi/2, pi/2].
C4_AlphaFolded ==
  (published > 0 /\ -PI <= locals.odom_robot.yaw /\ locals.odom_robot.yaw <= PI) =>
    (-HalfPI <= locals.s.alpha /\ locals.s.alpha <= HalfPI)

\* C5: the lookahead distance is at least 1.0 and equals
\* max(1.0, velocity * factor), the factor being the configured
\* lookahead_distance.
C5_Lookahead ==
  published > 0 =>
    LET wanted == (locals.odom_robot.vx * locals.config.lookahead_distance) \div Scale
    IN  /\ locals.s.lookahead_distance >= 1000
        /\ locals.s.lookahead_distance = IF wanted > 1000 THEN wanted ELSE 1000

\* the part of C5 that the code keeps: the lookahead distance is at least 1.0
C5_LookaheadFloor == published > 0 => locals.s.lookahead_distance >= 1000

\* C6: the fold maps a raw alpha in (pi/2, pi] to alpha - pi in (-pi/2, 0], a raw
\* alpha in [-pi, -pi/2) to alpha + pi in [0, pi/2), and leaves a raw alpha in
\* [-pi/2, pi/2] unchanged; a goal at (-5, 0) seen from (0, 0) with heading 0 has
\* raw alpha pi and folded alpha 0.
C6_Fold ==
  published > 0 =>
    LET raw == locals.s.alpha_raw
        alpha == locals.s.alpha
    IN  /\ (HalfPI < raw /\ raw <= PI) => (alpha = raw - PI /\ -HalfPI < alpha /\ alpha <= 0)
        /\ (-PI <= raw /\ raw < -HalfPI) => (alpha = raw + PI /\ 0 <= alpha /\ alpha < HalfPI)
        /\ (-HalfPI <= raw /\ raw <= HalfPI) => alpha = raw
        /\ ( /\ locals.odom_robot.x = 0 /\ locals.odom_robot.y = 0
             /\ locals.odom_robot.yaw = 0
             /\ locals.pose_goal.x = -5000 /\ locals.pose_goal.y = 0 )
           => (raw = PI /\ alpha = 0)

\* the goal directly behind the vehicle has been computed
C6_Witness ==
  /\ published > 0
  /\ locals.odom_robot.x = 0 /\ locals.odom_robot.y = 0 /\ locals.odom_robot.yaw = 0
  /\ locals.pose_goal.x = -5000 /\ locals.pose_goal.y = 0
  /\ locals.s.alpha_raw = PI
  /\ locals.s.alpha = 0

\* C7: the stored local path starts at global index max(0, k - 5), ends at
\* min(N - 1, k + 15), has at most 21 poses, is the global path between those
\* two indices in order, and no index outside 0..N-1 was read.
C7_Window ==
  local_path_msg_ # NoLocalPath =>
    LET n == Len(global_path_msg_)
        k == local_path_msg_.id_next
        first == IF k - 5 > 0 THEN k - 5 ELSE 0
        last == IF k + 15 < n - 1 THEN k + 15 ELSE n - 1
        poses == local_path_msg_.poses
    IN  /\ n >= 1 /\ k \in 0..(n - 1)
        /\ local_path_msg_.id_start = first
        /\ local_path_msg_.id_end = last
        /\ 0 <= first /\ first <= last /\ last <= n - 1
        /\ Len(poses) = last - first + 1
        /\ Len(poses) <= 21
        /\ \A i \in 1..Len(poses) : poses[i] = global_path_msg_[first + i]

\* a window of 21 poses clamped at neither end
C7_Witness ==
  /\ local_path_msg_ # NoLocalPath
  /\ Len(local_path_msg_.poses) = 21
  /\ local_path_msg_.id_start = local_path_msg_.id_next - 5
  /\ local_path_msg_.id_start > 0
  /\ local_path_msg_.id_end = local_path_msg_.id_next + 15
  /\ local_path_msg_.id_end < Len(global_path_msg_) - 1

\* C8: every path that localPathCallback receives from publishLocalPath has at
\* least 12 poses, so that poses[11] is inside it.
C8_GoalIndexInBounds ==
  [][path_updates' > path_updates => Len(Head(local_path_topic)) >= 12]_vars

\* C9: one command is published per local-path update and none otherwise; the
\* odometry callback changes the stored odometry and the frame identifiers
\* only, and the path callback leaves stored odometry and parameters alone.
C9_OneCommandPerPathUpdate == published = path_updates

\* the parts of C9 that the code keeps: a step that publishes is a local-path
\* update that read the stored odometry; a step that changes the stored odometry
\* or a frame identifier changes nothing else of the tracker; a step that
\* changes the goal changes neither odometry nor parameters
C9_Frames ==
  [][ /\ published' # published =>
          /\ published' = published + 1
          /\ path_updates' = path_updates + 1
          /\ locals'.odom_robot = odom_world_robot_
          /\ cmd_vel' = computeControlOutputs(odom_world_robot_, pose_world_goal_')
      /\ ( \/ odom_world_robot_' # odom_world_robot_
           \/ world_frame_' # world_frame_
           \/ robot_frame_' # robot_frame_ ) =>
          UNCHANGED <<params, config, pose_world_goal_, cmd_vel, published, path_updates>>
      /\ pose_world_goal_' # pose_world_goal_ =>
          UNCHANGED <<odom_world_robot_, params, config, world_frame_, robot_frame_>>
    ]_vars

====
